---- MODULE Spec2Model ----
(***************************************************************************)
(* LiveMusicHelper (src/unnamed/part_000): the streaming playback engine.  *)
(* One JavaScript event loop: every action below is one run-to-completion  *)
(* piece of code (a public method up to its first await, the continuation  *)
(* of an await, a connection callback, a timer callback).                  *)
(***************************************************************************)
EXTENDS Integers, Sequences, FiniteSets, TLC

\* ---------------------------------------------------------------- bounds
MaxConn   == 2   \* connections the remote service accepts in one run
MaxPlays  == 2   \* play() calls that may be suspended at the same time
MaxChunks == 2   \* audio-chunk messages delivered in one run
MaxClock  == 4   \* last value of the audio clock, in seconds
MaxDur    == 2   \* longest decoded buffer, in seconds
MaxPush   == 1   \* pushes of the UI (of each kind) awaiting the remote answer

\* ------------------------------------------------------ program constants
bufferTime == 2  \* private bufferTime = 2

NULL == 0
ConnIds   == 1..MaxConn
Durations == 1..MaxDur
States    == {"stopped", "loading", "playing", "paused"}

\* A prompt map is modelled by its values; the engine reads text and weight.
Prompt(t, w) == [text |-> t, weight |-> w]
ActiveMap == {Prompt("A", 1), Prompt("B", 0)}
SilentMap == {Prompt("A", 0), Prompt("B", 0)}
BothMap   == {Prompt("A", 1), Prompt("B", 1)}
PromptMaps == {ActiveMap, SilentMap, BothMap}
Texts == {"A", "B"}

NoBuf  == [has |-> FALSE, start |-> 0, dur |-> 0]
NoArgs == [has |-> FALSE, args |-> {}]

\* Pitch-bend values handed to setPitchBend, and "no value".
Bends  == {-1, 1}
NoBend == [has |-> FALSE, args |-> 0]

\* History of a cooldown window: the latest call made to the wrapper during
\* it, and whether one call or more were made (n counts up to two).
NoCalls     == [has |-> FALSE, args |-> {}, n |-> 0]
NoBendCalls == [has |-> FALSE, args |-> 0, n |-> 0]

\* MIDI inputs are named by numbers; a message is the input it came from and
\* its data (no bytes: the event has no data). Pitch-bend messages of channel
\* 0 carry every pair of 7-bit data bytes; the other messages (note on,
\* control change, pitch bend of channel 1) carry the bytes of EdgeBytes.
MidiInputs == {1, 2}
NoMessage  == [input |-> NULL, data |-> << >>]
Bytes      == 0..127
EdgeBytes  == {0, 64, 127}
MidiData ==
  {<<224, l, m>> : l \in Bytes, m \in Bytes}
    \cup {<<st, l, m>> : st \in {144, 176, 225}, l \in EdgeBytes, m \in EdgeBytes}
    \cup {<< >>}
MidiMessages == [input : MidiInputs, data : MidiData]

VARIABLES
  playbackState,   \* this.playbackState
  session,         \* this.session: NULL or the connection it wraps
  sessionPromise,  \* this.sessionPromise: NULL or the connection it is for
  nextStartTime,   \* this.nextStartTime, the schedule cursor
  prompts,         \* this.prompts
  filteredPrompts, \* this.filteredPrompts
  scheduled,       \* buffers started on the current outputNode: [start, dur]
  timers,          \* pending setTimeout callbacks of processAudioChunks
  clock,           \* audioContext.currentTime
  conns,           \* the remote service's view of each connection
  plays,           \* suspended play() calls
  decodes,         \* suspended processAudioChunks calls (decoded duration)
  thr,             \* throttle state of setWeightedPrompts
  pushes,          \* session.setWeightedPrompts calls awaited by nobody
  bend,            \* throttle state of setPitchBend
  bendPushes,      \* session.sendControlChanges calls in flight
  trace,           \* what the latest handler did: calls, signals, notifications
  prevBuf,         \* history: latest buffer scheduled since the last reset
  connects,        \* history: connect requests since the last stop()
  chunks,          \* history: audio-chunk messages delivered since the
                   \* initial state
  lastPush,        \* history: the pairs of the latest prompt push
  calls,           \* history: latest setWeightedPrompts call of this window
  bendCalls,       \* history: latest setPitchBend call of this window
  carried,         \* history: the texts filtered before the latest stop()
  staleTimers,     \* history: pending timers armed before the latest pause()/stop()
  decSeq,          \* history of each suspended decode: [seq, conn, stale], the
                   \* arrival number of its chunk (0: before the initial
                   \* state), the connection it came from, and whether
                   \* pause()/stop() ran since it arrived
  order,           \* history: the buffers started since the latest
                   \* pause()/stop(): [seq, conn, stale, start, dur]
  activeMidiInputId, \* MidiDispatcher.activeMidiInputId
  midiQueue,       \* MIDI messages sent by the devices and not delivered yet
  midiIn,          \* the latest MIDI message delivered: [input, data]
  midiOut          \* the events MidiDispatcher dispatched for it

vars == << playbackState, session, sessionPromise, nextStartTime, prompts,
           filteredPrompts, scheduled, timers, clock, conns, plays, decodes,
           thr, pushes, bend, bendPushes, trace, prevBuf, connects, chunks,
           lastPush, calls, bendCalls, carried, staleTimers, decSeq, order,
           activeMidiInputId, midiQueue, midiIn, midiOut >>

\* The whole state as one record, so that a method is a function on states.
Cur ==
  [ playbackState |-> playbackState, session |-> session,
    sessionPromise |-> sessionPromise, nextStartTime |-> nextStartTime,
    prompts |-> prompts, filteredPrompts |-> filteredPrompts,
    scheduled |-> scheduled, timers |-> timers, clock |-> clock,
    conns |-> conns, plays |-> plays, decodes |-> decodes, thr |-> thr,
    pushes |-> pushes, bend |-> bend, bendPushes |-> bendPushes,
    trace |-> trace, prevBuf |-> prevBuf,
    connects |-> connects, chunks |-> chunks, lastPush |-> lastPush,
    calls |-> calls, bendCalls |-> bendCalls, carried |-> carried,
    staleTimers |-> staleTimers, decSeq |-> decSeq, order |-> order,
    activeMidiInputId |-> activeMidiInputId, midiQueue |-> midiQueue,
    midiIn |-> midiIn,
    midiOut |-> midiOut ]

\* Suspended play() calls have no identity: they are kept in a fixed order.
PlayKey(r) ==
  (((IF r.pc = "session" THEN 0 ELSE 1) * (MaxConn + 1) + r.p) * 2
     + (IF r.push THEN 1 ELSE 0)) * 2 + (IF r.stale THEN 1 ELSE 0)
PlayBefore(a, b) == PlayKey(a) < PlayKey(b)

Commit(s) ==
  /\ playbackState' = s.playbackState
  /\ session' = s.session
  /\ sessionPromise' = s.sessionPromise
  /\ nextStartTime' = s.nextStartTime
  /\ prompts' = s.prompts
  /\ filteredPrompts' = s.filteredPrompts
  /\ scheduled' = s.scheduled
  /\ timers' = s.timers
  /\ clock' = s.clock
  /\ conns' = s.conns
  /\ plays' = SortSeq(s.plays, PlayBefore)
  /\ decodes' = s.decodes
  /\ thr' = s.thr
  /\ pushes' = s.pushes
  /\ trace' = s.trace
  /\ prevBuf' = s.prevBuf
  /\ connects' = s.connects
  /\ chunks' = s.chunks
  /\ bend' = s.bend
  /\ bendPushes' = s.bendPushes
  /\ lastPush' = s.lastPush
  /\ calls' = s.calls
  /\ bendCalls' = s.bendCalls
  /\ carried' = s.carried
  /\ staleTimers' = s.staleTimers
  /\ decSeq' = s.decSeq
  /\ order' = s.order
  /\ activeMidiInputId' = s.activeMidiInputId
  /\ midiQueue' = s.midiQueue
  /\ midiIn' = s.midiIn
  /\ midiOut' = s.midiOut

\* A handler starts with an empty trace that names it.
Begin(name) == [Cur EXCEPT !.trace = << <<"handler", name>> >>]
Emit(s, k, a) == [s EXCEPT !.trace = Append(@, <<k, a>>)]
DidIn(tr, k, a) == \E i \in 1..Len(tr) : tr[i] = <<k, a>>
Did(k, a) == DidIn(trace, k, a)
CountIn(tr, k, a) == Cardinality({i \in 1..Len(tr) : tr[i] = <<k, a>>})
Count(k, a) == CountIn(trace, k, a)
Pos(k, a) == CHOOSE i \in 1..Len(trace) : trace[i] = <<k, a>>
IsCall(e) == e[1] = "call"
CallsIn(tr) == [i \in 1..Len(SelectSeq(tr, IsCall)) |-> SelectSeq(tr, IsCall)[i][2]]
IsState(e) == e[1] = "state"
RemoveAt(q, i) == SubSeq(q, 1, i - 1) \o SubSeq(q, i + 1, Len(q))

\* The engine as the constructor leaves it.
Init ==
  /\ playbackState = "stopped"
  /\ session = NULL
  /\ sessionPromise = NULL
  /\ nextStartTime = 0
  /\ prompts = {}
  /\ filteredPrompts = {}
  /\ scheduled = {}
  /\ timers = 0
  /\ clock = 0
  /\ conns = [c \in ConnIds |-> "none"]
  /\ plays = << >>
  /\ decodes = << >>
  /\ thr = [cool |-> FALSE, pending |-> NoArgs]
  /\ pushes = 0
  /\ trace = << >>
  /\ prevBuf = NoBuf
  /\ connects = 0
  /\ chunks = 0
  /\ bend = [cool |-> FALSE, pending |-> NoBend]
  /\ bendPushes = 0
  /\ lastPush = {}
  /\ calls = NoCalls
  /\ bendCalls = NoBendCalls
  /\ carried = {}
  /\ staleTimers = 0
  /\ decSeq = << >>
  /\ order = {}
  /\ activeMidiInputId = NULL
  /\ midiQueue = << >>
  /\ midiIn = NoMessage
  /\ midiOut = << >>

\* ---------------------------------------------------- the MIDI dispatcher

\* The bitwise operators of the source on naturals.
RECURSIVE BitOr(_, _)
BitOr(a, b) ==
  IF a = 0 THEN b
  ELSE IF b = 0 THEN a
  ELSE (IF a % 2 = 1 \/ b % 2 = 1 THEN 1 ELSE 0) + 2 * BitOr(a \div 2, b \div 2)

RECURSIVE BitAnd(_, _)
BitAnd(a, b) ==
  IF a = 0 \/ b = 0 THEN 0
  ELSE (IF a % 2 = 1 /\ b % 2 = 1 THEN 1 ELSE 0) + 2 * BitAnd(a \div 2, b \div 2)

ShiftLeft(a, n) == a * 2^n

\* (rawValue - 8192) / 8192, kept as an exact fraction.
Normalized(rawValue) == [num |-> rawValue - 8192, den |-> 8192]

\* onmidimessage that takes data[1] for the high bits and data[2] for the low.
DispatchedSwapped(active, m) ==
  IF m.input # active THEN << >>
  ELSE IF m.data = << >> THEN << >>
  ELSE LET statusByte  == m.data[1]
           channel     == BitAnd(statusByte, 15)
           messageType == BitAnd(statusByte, 240)
       IN  IF messageType = 176
             THEN << [type |-> "cc-message",
                      detail |-> [cc |-> m.data[2], value |-> m.data[3],
                                  channel |-> channel]] >>
           ELSE IF messageType = 224
             THEN LET lsb == m.data[3]
                      msb == m.data[2]
                      rawValue == BitOr(ShiftLeft(msb, 7), lsb)
                  IN  << [type |-> "pitch-bend-message",
                          detail |-> Normalized(rawValue)] >>
           ELSE << >>

\* input.onmidimessage: the events dispatched for message m while the active
\* input is active (data[0], data[1], data[2] of the source are m.data[1..3]).
Dispatched(active, m) ==
  IF m.input # active THEN << >>
  ELSE IF m.data = << >> THEN << >>
  ELSE LET statusByte  == m.data[1]
           channel     == BitAnd(statusByte, 15)
           messageType == BitAnd(statusByte, 240)
       IN  IF messageType = 176
             THEN << [type |-> "cc-message",
                      detail |-> [cc |-> m.data[2], value |-> m.data[3],
                                  channel |-> channel]] >>
           ELSE IF messageType = 224
             THEN LET lsb == m.data[2]
                      msb == m.data[3]
                      rawValue == BitOr(ShiftLeft(msb, 7), lsb)
                  IN  << [type |-> "pitch-bend-message",
                          detail |-> Normalized(rawValue)] >>
           ELSE << >>

\* ------------------------------------------------------------ the engine

\* setPlaybackState(state): assign, then notify.
setPlaybackState(s, st) ==
  Emit([s EXCEPT !.playbackState = st], "state", st)

\* activePrompts that forgets the filtered texts.
activePromptsUnfiltered(s) ==
  {p \in s.prompts : p.weight # 0}

\* get activePrompts(): not filtered and weight different from 0.
activePrompts(s) ==
  {p \in s.prompts : p.text \notin s.filteredPrompts /\ p.weight # 0}

\* pause(): signal the session if there is one, notify, fade out, reset the
\* cursor, replace outputNode by a fresh gain node (nothing is attached to it).
pause(s) ==
  LET s0 == Emit(s, "call", "pause")
      s1 == IF s0.session # NULL THEN Emit(s0, "remote", "pause") ELSE s0
      s2 == setPlaybackState(s1, "paused")
      s3 == Emit(s2, "gain", "down")
  IN  [s3 EXCEPT !.nextStartTime = 0, !.scheduled = {}, !.prevBuf = NoBuf,
                 !.staleTimers = s.timers, !.order = {},
                 !.decSeq = [i \in 1..Len(@) |-> [@[i] EXCEPT !.stale = TRUE]]]

\* stop() that forgets to drop the connect promise.
stopKeepsPromise(s) ==
  LET s0 == Emit(s, "call", "stop")
      s1 == IF s0.session # NULL THEN Emit(s0, "remote", "stop") ELSE s0
      s2 == setPlaybackState(s1, "stopped")
      s3 == Emit(s2, "gain", "down")
  IN  [s3 EXCEPT !.nextStartTime = 0, !.session = NULL,
                 !.prevBuf = NoBuf, !.connects = 0, !.carried = s.filteredPrompts,
                 !.staleTimers = s.timers, !.order = {},
                 !.decSeq = [i \in 1..Len(@) |-> [@[i] EXCEPT !.stale = TRUE]],
                 !.plays = [i \in 1..Len(@) |-> [@[i] EXCEPT !.stale = TRUE]]]

\* stop(): signal the session if there is one, notify, fade out, reset the
\* cursor, drop the session handle and the connect promise. The connection
\* itself is not closed and filteredPrompts is not touched. History: the
\* suspended play() calls are now stale.
stop(s) ==
  LET s0 == Emit(s, "call", "stop")
      s1 == IF s0.session # NULL THEN Emit(s0, "remote", "stop") ELSE s0
      s2 == setPlaybackState(s1, "stopped")
      s3 == Emit(s2, "gain", "down")
  IN  [s3 EXCEPT !.nextStartTime = 0, !.session = NULL, !.sessionPromise = NULL,
                 !.prevBuf = NoBuf, !.connects = 0, !.carried = s.filteredPrompts,
                 !.staleTimers = s.timers, !.order = {},
                 !.decSeq = [i \in 1..Len(@) |-> [@[i] EXCEPT !.stale = TRUE]],
                 !.plays = [i \in 1..Len(@) |-> [@[i] EXCEPT !.stale = TRUE]]]

\* connect(): ask the remote service for a connection; the promise is kept.
FreeConns(s) == {c \in ConnIds : s.conns[c] = "none"}
connect(s) ==
  LET c == IF FreeConns(s) = {} THEN MaxConn
           ELSE CHOOSE x \in FreeConns(s) : \A y \in FreeConns(s) : x <= y
  IN  Emit([s EXCEPT !.conns[c] = "connecting", !.sessionPromise = c,
                     !.connects = @ + 1],
           "remote", "connect")

\* getSession() that connects on every call.
getSessionAlways(s) == connect(s)

\* getSession(): connect only when no promise is held.
getSession(s) ==
  IF s.sessionPromise = NULL THEN connect(s) ELSE s

\* setWeightedPrompts whose zero-active branch does not return.
setWeightedPromptsBodyNoReturn(s, m, awaited) ==
  LET s1 == Emit([s EXCEPT !.prompts = m], "invoke", "setWeightedPrompts")
      s2 == IF activePrompts(s1) = {}
              THEN pause(Emit(s1, "event", "error"))
              ELSE s1
  IN  IF s2.session = NULL
        THEN [st |-> s2, push |-> FALSE]
      ELSE [st |-> [Emit(s2, "remote", "prompts")
                      EXCEPT !.pushes = IF awaited THEN @ ELSE @ + 1,
                             !.lastPush = activePrompts(s2)],
            push |-> awaited]

\* The function wrapped by setWeightedPrompts, up to its await. awaited tells
\* whether the caller awaits the push (play() does, the UI does not).
setWeightedPromptsBody(s, m, awaited) ==
  LET s1 == Emit([s EXCEPT !.prompts = m], "invoke", "setWeightedPrompts")
  IN  IF activePrompts(s1) = {}
        THEN [st |-> pause(Emit(s1, "event", "error")), push |-> FALSE]
      ELSE IF s1.session = NULL
        THEN [st |-> s1, push |-> FALSE]
      ELSE [st |-> [Emit(s1, "remote", "prompts")
                      EXCEPT !.pushes = IF awaited THEN @ ELSE @ + 1,
                             !.lastPush = activePrompts(s1)],
            push |-> awaited]

\* A throttle that keeps the first deferred call of a window.
throttledFirstWins(s, m, awaited) ==
  IF ~s.thr.cool
    THEN LET r == setWeightedPromptsBody(s, m, awaited)
         IN  [st |-> [r.st EXCEPT !.thr.cool = TRUE], push |-> r.push]
    ELSE [st |-> [s EXCEPT !.thr.pending = IF @.has THEN @
                                           ELSE [has |-> TRUE, args |-> m],
                           !.calls = [has |-> TRUE, args |-> m,
                                      n |-> IF @.n = 0 THEN 1 ELSE 2]],
          push |-> FALSE]

\* throttle(fn, delay): outside the cooldown window the call runs fn at once
\* and opens a window; inside it the arguments replace the pending ones.
throttled(s, m, awaited) ==
  IF ~s.thr.cool
    THEN LET r == setWeightedPromptsBody(s, m, awaited)
         IN  [st |-> [r.st EXCEPT !.thr.cool = TRUE], push |-> r.push]
    ELSE [st |-> [s EXCEPT !.thr.pending = [has |-> TRUE, args |-> m],
                           !.calls = [has |-> TRUE, args |-> m,
                                      n |-> IF @.n = 0 THEN 1 ELSE 2]],
          push |-> FALSE]

\* The catch block of setWeightedPrompts: notify, then pause().
pushRejected(s) ==
  pause(Emit(Emit(s, "rejected", "prompts"), "event", "error"))

\* setPitchBend that checks the session handle only.
setPitchBendBodyAnyState(s, v) ==
  LET s1 == Emit(s, "invokeBend", ToString(v))
  IN  IF s1.session = NULL
        THEN s1
        ELSE [Emit(s1, "remote", "bend") EXCEPT !.bendPushes = @ + 1]

\* The function wrapped by setPitchBend, up to its await.
setPitchBendBody(s, v) ==
  LET s1 == Emit(s, "invokeBend", ToString(v))
  IN  IF s1.session = NULL \/ s1.playbackState \in {"stopped", "paused"}
        THEN s1
        ELSE [Emit(s1, "remote", "bend") EXCEPT !.bendPushes = @ + 1]

\* throttle(fn, delay) around setPitchBend.
throttledBend(s, v) ==
  IF ~s.bend.cool
    THEN [setPitchBendBody(s, v) EXCEPT !.bend.cool = TRUE]
    ELSE [s EXCEPT !.bend.pending = [has |-> TRUE, args |-> v],
                   !.bendCalls = [has |-> TRUE, args |-> v,
                                  n |-> IF @.n = 0 THEN 1 ELSE 2]]

\* The catch block of setPitchBend: notify, nothing else.
bendRejected(s) ==
  Emit(Emit(s, "rejected", "bend"), "event", "error")

\* play() up to its first await.
playStart(s) ==
  LET s0 == Emit(s, "call", "play")
      s1 == setPlaybackState(s0, "loading")
      s2 == getSession(s1)
  IN  [s2 EXCEPT !.plays = Append(@, [pc |-> "session", p |-> s2.sessionPromise,
                                      push |-> FALSE, stale |-> FALSE])]

\* play() from the connect promise's settlement to the second await.
playConnected(s, i) ==
  LET c == s.plays[i].p
  IN  IF s.conns[c] = "rejected"
        THEN Emit([s EXCEPT !.plays = RemoveAt(@, i)], "throw", "play")
        ELSE LET s1 == [s EXCEPT !.session = c]
                 r  == throttled(s1, s1.prompts, TRUE)
             IN  [r.st EXCEPT !.plays[i].pc = "prompts",
                              !.plays[i].push = r.push]

\* play() after the second await: resume the clock, signal play, fade in.
playFinish(s, i) ==
  LET s1 == [s EXCEPT !.plays = RemoveAt(@, i)]
  IN  IF s1.session = NULL
        THEN Emit(s1, "throw", "play")
        ELSE Emit(Emit(s1, "remote", "play"), "gain", "up")

\* processAudioChunks without the state guard: every chunk is decoded.
chunkArrivedUnguarded(s, d) ==
  [s EXCEPT !.chunks = @ + 1, !.decodes = Append(@, d)]

\* processAudioChunks up to its await: the state guard.
chunkArrived(s, d) ==
  LET s1 == [s EXCEPT !.chunks = @ + 1]
  IN  IF s1.playbackState \in {"paused", "stopped"}
        THEN Emit(s1, "audio", "discard")
        ELSE [s1 EXCEPT !.decodes = Append(@, d)]

\* processAudioChunks that starts the buffer without advancing the cursor.
chunkDecodedNoAdvance(s, i) ==
  LET d  == s.decodes[i]
      s0 == [s EXCEPT !.decodes = RemoveAt(@, i)]
      s1 == IF s0.nextStartTime = 0
              THEN Emit([s0 EXCEPT !.nextStartTime = s0.clock + bufferTime,
                                   !.timers = @ + 1],
                        "timer", "arm")
              ELSE s0
  IN  IF s1.nextStartTime < s1.clock
        THEN [setPlaybackState(Emit(s1, "audio", "underrun"), "loading")
                EXCEPT !.nextStartTime = 0, !.prevBuf = NoBuf]
        ELSE [Emit(s1, "audio", "start")
                EXCEPT !.scheduled = @ \cup {[start |-> s1.nextStartTime, dur |-> d]},
                       !.prevBuf = [has |-> TRUE, start |-> s1.nextStartTime, dur |-> d]]

\* processAudioChunks without the underrun check: a late buffer is started.
chunkDecodedNoCheck(s, i) ==
  LET d  == s.decodes[i]
      s0 == [s EXCEPT !.decodes = RemoveAt(@, i)]
      s1 == IF s0.nextStartTime = 0
              THEN Emit([s0 EXCEPT !.nextStartTime = s0.clock + bufferTime,
                                   !.timers = @ + 1],
                        "timer", "arm")
              ELSE s0
  IN  [Emit(s1, "audio", "start")
         EXCEPT !.scheduled = @ \cup {[start |-> s1.nextStartTime, dur |-> d]},
                !.prevBuf = [has |-> TRUE, start |-> s1.nextStartTime, dur |-> d],
                !.nextStartTime = @ + d]

\* processAudioChunks that only primes the cursor with the first buffer.
chunkDecodedPrimeOnly(s, i) ==
  LET d  == s.decodes[i]
      s0 == [s EXCEPT !.decodes = RemoveAt(@, i)]
  IN  IF s0.nextStartTime = 0
        THEN Emit([s0 EXCEPT !.nextStartTime = s0.clock + bufferTime,
                             !.timers = @ + 1],
                  "timer", "arm")
      ELSE IF s0.nextStartTime < s0.clock
        THEN [setPlaybackState(Emit(s0, "audio", "underrun"), "loading")
                EXCEPT !.nextStartTime = 0, !.prevBuf = NoBuf]
      ELSE [Emit(s0, "audio", "start")
              EXCEPT !.scheduled = @ \cup {[start |-> s0.nextStartTime, dur |-> d]},
                     !.prevBuf = [has |-> TRUE, start |-> s0.nextStartTime, dur |-> d],
                     !.nextStartTime = @ + d]

\* processAudioChunks after the decode: prime, underrun check, schedule.
chunkDecoded(s, i) ==
  LET d  == s.decodes[i]
      s0 == [s EXCEPT !.decodes = RemoveAt(@, i)]
      s1 == IF s0.nextStartTime = 0
              THEN Emit([s0 EXCEPT !.nextStartTime = s0.clock + bufferTime,
                                   !.timers = @ + 1],
                        "timer", "arm")
              ELSE s0
  IN  IF s1.nextStartTime < s1.clock
        THEN [setPlaybackState(Emit(s1, "audio", "underrun"), "loading")
                EXCEPT !.nextStartTime = 0, !.prevBuf = NoBuf]
        ELSE [Emit(s1, "audio", "start")
                EXCEPT !.scheduled = @ \cup {[start |-> s1.nextStartTime, dur |-> d]},
                       !.prevBuf = [has |-> TRUE, start |-> s1.nextStartTime, dur |-> d],
                       !.nextStartTime = @ + d]

\* A setTimeout callback that leaves the playback state alone.
timerFiredKeepsState(s) ==
  [s EXCEPT !.timers = @ - 1, !.staleTimers = IF @ > 0 THEN @ - 1 ELSE 0]

\* The setTimeout callback of processAudioChunks. History: the timers all have
\* the same delay and fire in the order they were armed, so one armed before
\* the latest pause()/stop() fires before any armed after it.
timerFired(s) ==
  setPlaybackState([s EXCEPT !.timers = @ - 1,
                             !.staleTimers = IF @ > 0 THEN @ - 1 ELSE 0],
                   "playing")

\* onerror and onclose: stop(), then the error notification.
connectionLost(s) ==
  Emit(stop(s), "event", "error")

\* onmessage that keeps only the latest filtered text.
promptFilteredLatest(s, t) ==
  Emit(Emit([s EXCEPT !.filteredPrompts = {t}], "text", t),
       "event", "filtered-prompt")

\* onmessage with filteredPrompt: a new set with the text added, then notify.
promptFiltered(s, t) ==
  Emit(Emit([s EXCEPT !.filteredPrompts = @ \cup {t}], "text", t),
       "event", "filtered-prompt")

\* playPause() that restarts instead of cancelling while loading.
playPauseTargetRestart(st) ==
  CASE st = "playing" -> "pause"
    [] st \in {"paused", "stopped", "loading"} -> "play"

\* playPause(): which method runs in which state.
playPauseTarget(st) ==
  CASE st = "playing" -> "pause"
    [] st \in {"paused", "stopped"} -> "play"
    [] st = "loading" -> "stop"

\* ----------------------------------------------------------- the actions

CanPlay == Len(plays) < MaxPlays /\ (sessionPromise # NULL \/ FreeConns(Cur) # {})

\* UI: play()
Play ==
  /\ CanPlay
  /\ Commit(playStart(Begin("play")))

\* UI: pause()
Pause ==
  /\ playbackState \in States
  /\ Commit(pause(Begin("pause")))

\* UI: stop()
Stop ==
  /\ playbackState \in States
  /\ Commit(stop(Begin("stop")))

\* UI: playPause()
PlayPause ==
  LET m == playPauseTarget(playbackState)
      s == Begin("playPause")
  IN  \/ m = "pause" /\ Commit(pause(s))
      \/ m = "play" /\ CanPlay /\ Commit(playStart(s))
      \/ m = "stop" /\ Commit(stop(s))

\* UI: setWeightedPrompts(map), through the throttle
SetWeightedPrompts ==
  \E m \in PromptMaps :
    /\ pushes < MaxPush
    /\ Commit(throttled(Begin("setWeightedPrompts"), m, FALSE).st)

\* The cooldown window of the throttle ends: a pending call runs and opens
\* the next window, otherwise the throttle is free again.
ThrottleWindow ==
  /\ thr.cool
  /\ IF thr.pending.has
       THEN /\ pushes < MaxPush
            /\ Commit(setWeightedPromptsBody(
                        [Emit(Begin("throttle"), "coalesced", ToString(calls.n))
                           EXCEPT !.thr.pending = NoArgs, !.calls = NoCalls],
                        thr.pending.args, FALSE).st)
       ELSE Commit([Begin("throttle") EXCEPT !.thr.cool = FALSE])

\* The remote service answers a push nobody awaits.
PushSettled ==
  /\ pushes > 0
  /\ \E ok \in BOOLEAN :
       LET s == [Begin("pushSettled") EXCEPT !.pushes = @ - 1]
       IN  Commit(IF ok THEN s ELSE pushRejected(s))

\* UI: setPitchBend(value), through its throttle
SetPitchBend ==
  \E v \in Bends :
    /\ bendPushes < MaxPush
    /\ Commit(throttledBend(Begin("setPitchBend"), v))

\* The cooldown window of the pitch-bend throttle ends.
BendWindow ==
  /\ bend.cool
  /\ IF bend.pending.has
       THEN /\ bendPushes < MaxPush
            /\ Commit(setPitchBendBody(
                        [Emit(Begin("bendThrottle"), "coalesced", ToString(bendCalls.n))
                           EXCEPT !.bend.pending = NoBend, !.bendCalls = NoBendCalls],
                        bend.pending.args))
       ELSE Commit([Begin("bendThrottle") EXCEPT !.bend.cool = FALSE])

\* The remote service answers a pitch-bend push.
BendSettled ==
  /\ bendPushes > 0
  /\ \E ok \in BOOLEAN :
       LET s == [Begin("bendSettled") EXCEPT !.bendPushes = @ - 1]
       IN  Commit(IF ok THEN s ELSE bendRejected(s))

\* The connect promise awaited by the i-th suspended play() settles.
PlayConnected(i) ==
  /\ i \in 1..Len(plays)
  /\ plays[i].pc = "session"
  /\ conns[plays[i].p] \in {"open", "closed", "rejected"}
  /\ Commit(playConnected(Begin("playConnected"), i))

\* The setWeightedPrompts call awaited by the i-th suspended play() returns.
PlayFinish(i) ==
  /\ i \in 1..Len(plays)
  /\ plays[i].pc = "prompts"
  /\ \E ok \in (IF plays[i].push THEN BOOLEAN ELSE {TRUE}) :
       LET s == Begin("playFinish")
       IN  Commit(playFinish(IF ok THEN s ELSE pushRejected(s), i))

\* The remote service accepts or refuses a connection.
ConnOpen(c) ==
  /\ conns[c] = "connecting"
  /\ Commit([Begin("open") EXCEPT !.conns[c] = "open"])

ConnReject(c) ==
  /\ conns[c] = "connecting"
  /\ Commit([Begin("reject") EXCEPT !.conns[c] = "rejected"])

\* callbacks.onerror of connection c
ConnError(c) ==
  /\ conns[c] \in {"connecting", "open"}
  /\ Commit(connectionLost(Begin("onerror")))

\* callbacks.onclose of connection c
ConnClose(c) ==
  /\ conns[c] = "open"
  /\ Commit(connectionLost([Begin("onclose") EXCEPT !.conns[c] = "closed"]))

\* History of processAudioChunks: a chunk that reaches the decode is recorded
\* with its arrival number and its connection; a buffer that is started is
\* recorded with the record of its chunk.
arrivalNoted(s, c) ==
  IF Len(s.decodes) > Len(s.decSeq)
    THEN [s EXCEPT !.decSeq = Append(@, [seq |-> s.chunks, conn |-> c,
                                         stale |-> FALSE])]
    ELSE s

scheduleNoted(s, i) ==
  LET r == s.decSeq[i]
  IN  [s EXCEPT !.decSeq = RemoveAt(@, i),
                !.order = IF DidIn(s.trace, "audio", "start")
                            THEN @ \cup {[seq |-> r.seq, conn |-> r.conn,
                                          stale |-> r.stale,
                                          start |-> s.prevBuf.start,
                                          dur |-> s.prevBuf.dur]}
                            ELSE @]

\* callbacks.onmessage of connection c with audioChunks
ChunkMessage(c) ==
  /\ conns[c] = "open"
  /\ chunks < MaxChunks
  /\ \E d \in Durations :
       Commit(arrivalNoted(chunkArrived(Begin("onmessage.audio"), d), c))

\* callbacks.onmessage of connection c with filteredPrompt
FilteredMessage(c) ==
  /\ conns[c] = "open"
  /\ \E t \in Texts : Commit(promptFiltered(Begin("onmessage.filtered"), t))

\* decodeAudioData of the i-th suspended processAudioChunks resolves.
DecodeDone(i) ==
  /\ i \in 1..Len(decodes)
  /\ Commit(scheduleNoted(chunkDecoded(Begin("decoded"), i), i))

\* A timer set by processAudioChunks fires.
TimerFire ==
  /\ timers > 0
  /\ Commit(timerFired(Begin("timer")))

\* The audio clock advances.
Tick ==
  /\ clock < MaxClock
  /\ Commit([Begin("tick") EXCEPT !.clock = @ + 1])

\* Every handler and every event of the environment.
NextAll ==
  \/ Play
  \/ Pause
  \/ Stop
  \/ PlayPause
  \/ SetWeightedPrompts
  \/ ThrottleWindow
  \/ PushSettled
  \/ SetPitchBend
  \/ BendWindow
  \/ BendSettled
  \/ \E i \in 1..MaxPlays : PlayConnected(i)
  \/ \E i \in 1..MaxPlays : PlayFinish(i)
  \/ \E c \in ConnIds : ConnOpen(c)
  \/ \E c \in ConnIds : ConnReject(c)
  \/ \E c \in ConnIds : ConnError(c)
  \/ \E c \in ConnIds : ConnClose(c)
  \/ \E c \in ConnIds : ChunkMessage(c)
  \/ \E c \in ConnIds : FilteredMessage(c)
  \/ \E i \in 1..MaxChunks : DecodeDone(i)
  \/ TimerFire
  \/ Tick

SpecAll == Init /\ [][NextAll]_vars

\* ------------------------------------------------------ the specifications

\* Session lifecycle: the engine from its constructor, or from the state the
\* UI's first setWeightedPrompts(ActiveMap) leaves once the throttle window is
\* over; play(), stop() and every event of the connections (pause() is
\* exercised with the stream and with the control path).
InitLifecycle ==
  \/ Init
  \/ /\ playbackState = "stopped"
     /\ session = NULL
     /\ sessionPromise = NULL
     /\ nextStartTime = 0
     /\ prompts = ActiveMap
     /\ filteredPrompts = {}
     /\ scheduled = {}
     /\ timers = 0
     /\ clock = 0
     /\ conns = [c \in ConnIds |-> "none"]
     /\ plays = << >>
     /\ decodes = << >>
     /\ thr = [cool |-> FALSE, pending |-> NoArgs]
     /\ pushes = 0
     /\ trace = << <<"handler", "throttle">> >>
     /\ prevBuf = NoBuf
     /\ connects = 0
     /\ chunks = 0
     /\ bend = [cool |-> FALSE, pending |-> NoBend]
     /\ bendPushes = 0
     /\ lastPush = {}
     /\ calls = NoCalls
     /\ bendCalls = NoBendCalls
     /\ carried = {}
     /\ staleTimers = 0
     /\ decSeq = << >>
     /\ order = {}
     /\ activeMidiInputId = NULL
     /\ midiQueue = << >>
     /\ midiIn = NoMessage
     /\ midiOut = << >>

Next ==
  \/ Play
  \/ Stop
  \/ ThrottleWindow
  \/ \E i \in 1..MaxPlays : PlayConnected(i)
  \/ \E i \in 1..MaxPlays : PlayFinish(i)
  \/ \E c \in ConnIds : ConnOpen(c)
  \/ \E c \in ConnIds : ConnReject(c)
  \/ \E c \in ConnIds : ConnError(c)
  \/ \E c \in ConnIds : ConnClose(c)

Spec == InitLifecycle /\ [][Next]_vars

\* One stream: the engine after setWeightedPrompts(ActiveMap) and a completed
\* play() on connection 1 (state loading, session established), under every
\* interleaving of chunk messages, decodes, timers, clock ticks, pause(),
\* stop() and connection loss.
InitStream ==
  /\ playbackState = "loading"
  /\ session = 1
  /\ sessionPromise = 1
  /\ nextStartTime = 0
  /\ prompts = ActiveMap
  /\ filteredPrompts = {}
  /\ scheduled = {}
  /\ timers = 0
  /\ clock = 0
  /\ conns = [c \in ConnIds |-> IF c = 1 THEN "open" ELSE "none"]
  /\ plays = << >>
  /\ decodes = << >>
  /\ thr = [cool |-> FALSE, pending |-> NoArgs]
  /\ pushes = 0
  /\ trace = << <<"handler", "throttle">> >>
  /\ prevBuf = NoBuf
  /\ connects = 1
  /\ chunks = 0
  /\ bend = [cool |-> FALSE, pending |-> NoBend]
  /\ bendPushes = 0
  /\ lastPush = {Prompt("A", 1)}
  /\ calls = NoCalls
  /\ bendCalls = NoBendCalls
  /\ carried = {}
  /\ staleTimers = 0
  /\ decSeq = << >>
  /\ order = {}
  /\ activeMidiInputId = NULL
  /\ midiQueue = << >>
  /\ midiIn = NoMessage
  /\ midiOut = << >>

NextStream ==
  \/ Pause
  \/ Stop
  \/ \E c \in ConnIds : ConnError(c)
  \/ \E c \in ConnIds : ConnClose(c)
  \/ \E c \in ConnIds : ChunkMessage(c)
  \/ \E i \in 1..MaxChunks : DecodeDone(i)
  \/ TimerFire
  \/ Tick

SpecStream == InitStream /\ [][NextStream]_vars

\* The toggle: the engine playing its first buffer (one chunk of one second
\* primed at clock 0, its timer fired at clock 2), driven by playPause() alone.
\* The history counts the chunk messages from this state on: the buffer already
\* started has arrival number 0.
InitPlaying ==
  /\ playbackState = "playing"
  /\ session = 1
  /\ sessionPromise = 1
  /\ nextStartTime = 3
  /\ prompts = ActiveMap
  /\ filteredPrompts = {}
  /\ scheduled = {[start |-> 2, dur |-> 1]}
  /\ timers = 0
  /\ clock = 2
  /\ conns = [c \in ConnIds |-> IF c = 1 THEN "open" ELSE "none"]
  /\ plays = << >>
  /\ decodes = << >>
  /\ thr = [cool |-> FALSE, pending |-> NoArgs]
  /\ pushes = 0
  /\ trace = << <<"handler", "timer">>, <<"state", "playing">> >>
  /\ prevBuf = [has |-> TRUE, start |-> 2, dur |-> 1]
  /\ connects = 1
  /\ chunks = 0
  /\ bend = [cool |-> FALSE, pending |-> NoBend]
  /\ bendPushes = 0
  /\ lastPush = {Prompt("A", 1)}
  /\ calls = NoCalls
  /\ bendCalls = NoBendCalls
  /\ carried = {}
  /\ staleTimers = 0
  /\ decSeq = << >>
  /\ order = {[seq |-> 0, conn |-> 1, stale |-> FALSE, start |-> 2, dur |-> 1]}
  /\ activeMidiInputId = NULL
  /\ midiQueue = << >>
  /\ midiIn = NoMessage
  /\ midiOut = << >>

NextToggle ==
  \/ PlayPause
  \/ ThrottleWindow
  \/ \E i \in 1..MaxPlays : PlayConnected(i)
  \/ \E i \in 1..MaxPlays : PlayFinish(i)
  \/ \E c \in ConnIds : ConnOpen(c)

SpecToggle == InitPlaying /\ [][NextToggle]_vars

\* The control path: the playing engine of InitPlaying, driven by
\* setWeightedPrompts and setPitchBend through their throttles, the remote
\* answers to the pushes, filtered-prompt notices, pause() and stop().
NextControl ==
  \/ SetWeightedPrompts
  \/ ThrottleWindow
  \/ PushSettled
  \/ SetPitchBend
  \/ BendWindow
  \/ BendSettled
  \/ \E c \in ConnIds : FilteredMessage(c)
  \/ Pause
  \/ Stop

SpecControl == InitPlaying /\ [][NextControl]_vars

\* A new session: the engine of InitStream when filtered-prompt notices
\* arrive, stop() or a connection error ends the session and play() connects
\* again, all within the throttle window the first play() opens.
NextSession ==
  \/ Play
  \/ Stop
  \/ \E i \in 1..MaxPlays : PlayConnected(i)
  \/ \E i \in 1..MaxPlays : PlayFinish(i)
  \/ \E c \in ConnIds : ConnOpen(c)
  \/ \E c \in ConnIds : ConnError(c)
  \/ \E c \in ConnIds : FilteredMessage(c)

SpecSession == InitStream /\ [][NextSession]_vars

\* Pitch bend in every state: the playing engine of InitPlaying, toggled by
\* playPause() (pause, play again, cancel while loading, play from stopped)
\* while setPitchBend is called through its throttle.
NextBend ==
  \/ PlayPause
  \/ ThrottleWindow
  \/ SetPitchBend
  \/ BendWindow
  \/ BendSettled
  \/ \E i \in 1..MaxPlays : PlayConnected(i)
  \/ \E i \in 1..MaxPlays : PlayFinish(i)
  \/ \E c \in ConnIds : ConnOpen(c)

SpecBend == InitPlaying /\ [][NextBend]_vars

\* ------------------------------------------------------------- the claims

Decoded == Did("handler", "decoded")
Started == Did("audio", "start")
Toggled == Did("handler", "playPause")
Resumed == Did("handler", "playConnected")
Lost    == Did("handler", "onerror") \/ Did("handler", "onclose")

\* C1: with no pause(), stop() or underrun since the previous buffer was
\* scheduled (prevBuf is reset by each of them), a buffer is started exactly
\* at the previous buffer's start plus its duration, hence not earlier.
C1_Contiguous ==
  [][ (prevBuf.has /\ Started') =>
        /\ prevBuf'.start = prevBuf.start + prevBuf.dur
        /\ prevBuf'.start >= prevBuf.start ]_vars

\* A second buffer has been started behind a first one.
C1_Witness ==
  Started /\ ~Did("timer", "arm") /\ Cardinality(scheduled) >= 2

\* C2: a chunk processed (its decode completes) while the cursor is nonzero
\* and strictly earlier than the clock sets the state to loading, resets the
\* cursor to 0 and starts no buffer.
C2_Underrun ==
  [][ (Decoded' /\ nextStartTime # 0 /\ nextStartTime < clock) =>
        /\ playbackState' = "loading"
        /\ nextStartTime' = 0
        /\ ~Started'
        /\ scheduled' = scheduled ]_vars

\* An underrun has just been detected.
C2_Witness ==
  Decoded /\ Did("audio", "underrun") /\ nextStartTime = 0

\* C3: the playback state changes only along stopped|paused -> loading,
\* loading -> playing, playing -> paused, any -> stopped, playing -> loading.
Permitted(a, b) ==
  \/ a = b
  \/ a \in {"stopped", "paused"} /\ b = "loading"
  \/ a = "loading" /\ b = "playing"
  \/ a = "playing" /\ b = "paused"
  \/ b = "stopped"
  \/ a = "playing" /\ b = "loading"
C3_Transitions ==
  [][Permitted(playbackState, playbackState')]_vars

\* C4: playPause() performs exactly one of the three methods: pause() when
\* playing, play() when paused or stopped, stop() when loading.
C4_PlayPause ==
  [][ Toggled' =>
        /\ playbackState = "playing" => CallsIn(trace') = <<"pause">>
        /\ playbackState \in {"paused", "stopped"} => CallsIn(trace') = <<"play">>
        /\ playbackState = "loading" => CallsIn(trace') = <<"stop">> ]_vars

\* playPause() has cancelled a loading engine.
C4_Witness ==
  Toggled /\ Did("call", "stop") /\ playbackState = "stopped"

\* C5: a decode that completes while the state is stopped (it was started
\* before the stop(): chunks arriving while stopped are discarded) starts no
\* buffer, leaves the cursor and the state alone and arms no timer.
C5_StaleDecodeIgnored ==
  [][ (Decoded' /\ playbackState = "stopped") =>
        /\ ~Started'
        /\ nextStartTime' = nextStartTime
        /\ timers' = timers
        /\ playbackState' = playbackState ]_vars

\* C6: when a play() suspended on the connection resumes after a stop() with
\* no play() call since (the connect promise is still null), the session
\* handle and the connect promise stay null and the state stays stopped.
C6_StopCancelsPlay ==
  [][ (Resumed' /\ session = NULL /\ sessionPromise = NULL
               /\ playbackState = "stopped") =>
        /\ session' = NULL
        /\ sessionPromise' = NULL
        /\ playbackState' = "stopped" ]_vars

\* C7: at most one connection is open at any time.
C7_OneLiveSession ==
  Cardinality({c \in ConnIds : conns[c] = "open"}) <= 1

\* C8: since the last stop() (connection errors and closes stop), at most one
\* connect request was made, exactly one while a promise is held, and every
\* play() suspended since then holds that one promise.
C8_SingleFlight ==
  /\ connects <= 1
  /\ (sessionPromise # NULL <=> connects = 1)
  /\ \A i \in 1..Len(plays) : ~plays[i].stale => plays[i].p = sessionPromise

\* Two play() calls are suspended on the one connect request.
C8_Witness ==
  /\ Len(plays) = 2
  /\ \A i \in 1..Len(plays) : ~plays[i].stale /\ plays[i].pc = "session"
  /\ connects = 1

\* C9: once onerror or onclose has run, the state is stopped, the session
\* handle and the connect promise are null, the cursor is 0, and one error
\* notification was raised, after the one state-changed notification.
C9_ConnectionLost ==
  Lost =>
    /\ playbackState = "stopped"
    /\ session = NULL
    /\ sessionPromise = NULL
    /\ nextStartTime = 0
    /\ Count("event", "error") = 1
    /\ Len(SelectSeq(trace, IsState)) = 1
    /\ Pos("state", "stopped") < Pos("event", "error")

\* The connection was lost while a session was held.
C9_Witness ==
  Lost /\ Did("remote", "stop") /\ Did("event", "error")

\* C10: play() never throws or rejects to its caller.
C10_NoThrow ==
  ~Did("throw", "play")

Invoked == Did("invoke", "setWeightedPrompts")

\* C11: when setWeightedPrompts runs with a map in which every prompt has
\* weight 0 or a filtered text, the state becomes paused, one error
\* notification is raised, nothing is pushed to the remote service, and the
\* session handle and the connect promise are left as they were.
C11_ZeroActive ==
  [][ (Invoked' /\ \A p \in prompts' : p.weight = 0 \/ p.text \in filteredPrompts') =>
        /\ playbackState' = "paused"
        /\ CountIn(trace', "event", "error") = 1
        /\ ~DidIn(trace', "remote", "prompts")
        /\ pushes' = pushes
        /\ lastPush' = lastPush
        /\ session' = session
        /\ sessionPromise' = sessionPromise ]_vars

\* setWeightedPrompts has run on a live session with a map whose only
\* weighted prompt is filtered.
C11_Witness ==
  /\ Invoked /\ Did("event", "error")
  /\ playbackState = "paused" /\ session # NULL
  /\ prompts = ActiveMap /\ "A" \in filteredPrompts

Pushed == Did("remote", "prompts")

\* C12: every pair of a prompt push is a prompt of the latest map whose
\* weight is not 0 and whose text is not in the filtered set at that time.
C12_ActiveFilter ==
  [][ DidIn(trace', "remote", "prompts") =>
        \A q \in lastPush' :
           /\ q \in prompts'
           /\ q.weight # 0
           /\ q.text \notin filteredPrompts' ]_vars

\* A push was made from a map with two weighted prompts, one of them filtered.
C12_Witness ==
  /\ Pushed
  /\ prompts = BothMap /\ filteredPrompts = {"A"}
  /\ lastPush = {Prompt("B", 1)}

\* C13: when the remote service rejects a prompt push or a pitch-bend push,
\* the engine raises an error notification, the state becomes paused and the
\* session handle is kept.
C13_RejectionPauses ==
  [][ (DidIn(trace', "rejected", "prompts") \/ DidIn(trace', "rejected", "bend")) =>
        /\ DidIn(trace', "event", "error")
        /\ playbackState' = "paused"
        /\ session' = session ]_vars

BendInvokedIn(tr) == \E v \in Bends : DidIn(tr, "invokeBend", ToString(v))
BendSent == Did("remote", "bend")

\* C14: setPitchBend, when it runs, sends the control message exactly when a
\* session handle exists and the state is playing or loading; when the state
\* is paused or stopped it sends nothing and changes no engine state.
C14_PitchBendGuard ==
  [][ BendInvokedIn(trace') =>
        /\ DidIn(trace', "remote", "bend")
              <=> (session # NULL /\ playbackState \in {"playing", "loading"})
        /\ playbackState \in {"paused", "stopped"} =>
              /\ bendPushes' = bendPushes
              /\ <<playbackState, session, sessionPromise, nextStartTime,
                    prompts, filteredPrompts, scheduled, timers, clock, conns,
                    plays, decodes, pushes>>'
                  = <<playbackState, session, sessionPromise, nextStartTime,
                      prompts, filteredPrompts, scheduled, timers, clock, conns,
                      plays, decodes, pushes>> ]_vars

\* setPitchBend has run and sent nothing although a session handle exists:
\* the engine is paused.
C14_Witness ==
  /\ BendInvokedIn(trace) /\ ~BendSent
  /\ session # NULL /\ playbackState = "paused"

\* C15: when play() establishes the session of a connection requested after
\* the latest stop() (connection errors stop), no text filtered before that
\* stop() is in the filtered set: the set started empty for the new session.
C15_FilterPerSession ==
  [][ (Resumed' /\ session' # NULL /\ session' = sessionPromise') =>
        filteredPrompts' \cap carried' = {} ]_vars

Filtered == Did("handler", "onmessage.filtered")

\* C16: a filtered-prompt notice for text T adds T to the filtered set and
\* removes nothing, raises one filtered-prompt notification and no error, and
\* leaves the playback state, the cursor and the session handle unchanged.
C16_FilteredNotice ==
  [][ Filtered' =>
        /\ \E t \in Texts : DidIn(trace', "text", t)
        /\ \A t \in Texts :
              DidIn(trace', "text", t) => filteredPrompts' = filteredPrompts \cup {t}
        /\ CountIn(trace', "event", "filtered-prompt") = 1
        /\ ~DidIn(trace', "event", "error")
        /\ playbackState' = playbackState
        /\ nextStartTime' = nextStartTime
        /\ session' = session
        /\ sessionPromise' = sessionPromise ]_vars

\* A second text has been filtered while the engine plays.
C16_Witness ==
  /\ Filtered /\ Did("text", "B")
  /\ filteredPrompts = {"A", "B"}
  /\ playbackState = "playing" /\ nextStartTime # 0 /\ session # NULL

Arrived == Did("handler", "onmessage.audio")

\* C17: a chunk batch that arrives while the state is paused or stopped is
\* discarded: no buffer is started, the cursor and the state are unchanged,
\* no timer is armed and no decode is left pending for a later resume.
C17_DiscardWhenIdle ==
  [][ (Arrived' /\ playbackState \in {"paused", "stopped"}) =>
        /\ ~Started'
        /\ scheduled' = scheduled
        /\ nextStartTime' = nextStartTime
        /\ playbackState' = playbackState
        /\ timers' = timers
        /\ decodes' = decodes ]_vars

\* A chunk has been discarded by the paused engine.
C17_Witness ==
  Arrived /\ Did("audio", "discard") /\ playbackState = "paused"

\* C18: the first chunk processed after a reset, at clock time t, leaves the
\* cursor at t + bufferTime (2.0 for t = 0); the following chunk is started
\* at the cursor (2.0) and advances it by its own duration (to 3.0).
C18_Startup ==
  [][ Decoded' =>
        /\ nextStartTime = 0 => nextStartTime' = clock + bufferTime
        /\ (nextStartTime # 0 /\ Started') =>
              /\ prevBuf'.start = nextStartTime
              /\ nextStartTime' = nextStartTime + prevBuf'.dur ]_vars

\* C18, amended: the first chunk processed after a reset, at clock time t,
\* arms the buffering timer, is itself started at t + bufferTime and leaves
\* the cursor at t + bufferTime + its duration; the following chunk is started
\* at the cursor and advances it by its own duration.
C18_StartupAmended ==
  [][ Decoded' =>
        /\ nextStartTime = 0 =>
              /\ Started'
              /\ timers' = timers + 1
              /\ prevBuf'.start = clock + bufferTime
              /\ nextStartTime' = clock + bufferTime + prevBuf'.dur
        /\ (nextStartTime # 0 /\ Started') =>
              /\ prevBuf'.start = nextStartTime
              /\ nextStartTime' = nextStartTime + prevBuf'.dur ]_vars

\* The scenario: a first chunk of one second processed at clock 0.
C18_Witness ==
  /\ Decoded /\ Did("timer", "arm") /\ Started
  /\ clock = 0
  /\ prevBuf = [has |-> TRUE, start |-> 2, dur |-> 1]
  /\ nextStartTime = 3

\* C19: stop() called when the state is already stopped does not throw,
\* leaves the state stopped, the cursor 0, the session handle and the connect
\* promise null, and starts no gain fade.
C19_StopIdempotent ==
  [][ (DidIn(trace', "call", "stop") /\ playbackState = "stopped") =>
        /\ ~DidIn(trace', "throw", "stop")
        /\ playbackState' = "stopped"
        /\ nextStartTime' = 0
        /\ session' = NULL
        /\ sessionPromise' = NULL
        /\ ~DidIn(trace', "gain", "down") ]_vars

\* C20: the calls made to a throttled operation during one cooldown window
\* cause no invocation while the window lasts; when it ends, N >= 1 such
\* calls cause exactly one invocation, with the arguments of the last call,
\* and no call causes none. Both for setWeightedPrompts and setPitchBend.
C20_ThrottleLatestWins ==
  [][ /\ (DidIn(trace', "handler", "setWeightedPrompts") /\ thr.cool) =>
           ~DidIn(trace', "invoke", "setWeightedPrompts")
      /\ DidIn(trace', "handler", "throttle") =>
           IF calls.has
             THEN /\ CountIn(trace', "invoke", "setWeightedPrompts") = 1
                  /\ prompts' = calls.args
             ELSE ~DidIn(trace', "invoke", "setWeightedPrompts")
      /\ (DidIn(trace', "handler", "setPitchBend") /\ bend.cool) =>
           ~BendInvokedIn(trace')
      /\ DidIn(trace', "handler", "bendThrottle") =>
           IF bendCalls.has
             THEN \A v \in Bends :
                    CountIn(trace', "invokeBend", ToString(v))
                      = (IF v = bendCalls.args THEN 1 ELSE 0)
             ELSE ~BendInvokedIn(trace') ]_vars

\* A window in which two or more setWeightedPrompts calls were made has
\* ended with one invocation that pushed the pairs of BothMap.
C20_Witness ==
  /\ Did("handler", "throttle") /\ Did("coalesced", "2")
  /\ Invoked /\ Pushed
  /\ prompts = BothMap /\ lastPush = BothMap

\* C21: a buffering timer armed before a pause() or stop() never takes effect
\* after it: no timer armed before the most recent pause() or stop() makes the
\* state become playing.
C21_StaleTimerInert ==
  [][ (DidIn(trace', "handler", "timer") /\ staleTimers' < staleTimers)
        => ~(playbackState # "playing" /\ playbackState' = "playing") ]_vars

\* C22: chunks are scheduled in arrival order: of two chunks that arrived and
\* were scheduled since the latest pause() or stop(), the one whose message
\* arrived first does not start later than the other, whatever the order of
\* the decode completions.
C22_ArrivalOrder ==
  \A a \in order : \A b \in order :
    (~a.stale /\ ~b.stale /\ a.seq < b.seq) => a.start <= b.start

\* C23: cursor invariant: whenever the state is playing and the cursor is
\* nonzero, the cursor is the end (start plus duration) of the most recently
\* scheduled buffer; and from one state of a period in state playing to the
\* next, a nonzero cursor never decreases.
C23_CursorInvariant ==
  /\ []( (playbackState = "playing" /\ nextStartTime # 0)
           => (prevBuf.has /\ nextStartTime = prevBuf.start + prevBuf.dur) )
  /\ [][ ( playbackState = "playing" /\ playbackState' = "playing"
           /\ nextStartTime # 0 /\ nextStartTime' # 0 )
         => nextStartTime' >= nextStartTime ]_vars

\* The engine is playing and a further buffer has just been scheduled behind
\* an earlier one.
C23_Witness ==
  /\ playbackState = "playing"
  /\ Did("handler", "decoded")
  /\ Did("audio", "start")
  /\ ~Did("timer", "arm")
  /\ nextStartTime = prevBuf.start + prevBuf.dur
  /\ Cardinality(scheduled) >= 2

\* Recovery: the playing engine of InitPlaying under chunk messages, decodes,
\* the clock and pause(). The event loop runs a due setTimeout callback, so
\* an armed buffering timer eventually fires.
NextHeal ==
  \/ Pause
  \/ \E c \in ConnIds : ChunkMessage(c)
  \/ \E i \in 1..MaxChunks : DecodeDone(i)
  \/ TimerFire
  \/ Tick

SpecHeal == InitPlaying /\ [][NextHeal]_vars /\ WF_vars(TimerFire)

\* The cursor is zero only after pause(), stop() or an underrun, and order is
\* emptied by pause() and stop(): a decode that primes the cursor behind
\* earlier buffers of order follows an underrun with no pause() or stop()
\* in between.
Reprimed ==
  Decoded /\ Did("timer", "arm") /\ Cardinality(order) >= 2

\* C24: an underrun raises no error notification; a further chunk processed
\* after it, with no pause(), stop() or connection error in between, is
\* started at clock + bufferTime, and from there the state eventually becomes
\* playing unless pause() or stop() (which a connection error calls) runs.
C24_UnderrunHeals ==
  /\ [][ (Decoded' /\ nextStartTime # 0 /\ nextStartTime < clock)
           => ~DidIn(trace', "event", "error") ]_vars
  /\ [](Reprimed => (prevBuf.start = clock + bufferTime /\ timers > 0))
  /\ Reprimed ~> ( \/ playbackState = "playing"
                    \/ Did("call", "pause")
                    \/ Did("call", "stop") )

\* A chunk has just re-primed the cursor after an underrun.
C24_Witness ==
  Reprimed /\ playbackState = "loading" /\ nextStartTime = clock + bufferTime + prevBuf.dur

\* Stop and replay: the playing engine of InitPlaying under chunk messages,
\* decodes, stop() and play() with its connection.
NextReplay ==
  \/ Play
  \/ Stop
  \/ \E i \in 1..MaxPlays : PlayConnected(i)
  \/ \E i \in 1..MaxPlays : PlayFinish(i)
  \/ \E c \in ConnIds : ConnOpen(c)
  \/ \E c \in ConnIds : ChunkMessage(c)
  \/ \E i \in 1..MaxChunks : DecodeDone(i)

SpecReplay == InitPlaying /\ [][NextReplay]_vars

\* C25: no two buffers attached to the current output gain node overlap. The
\* case stated here: a buffer whose chunk came from the current session (the
\* one of the latest connect) and arrived after the latest pause() or stop(),
\* hence after the play() that followed it, overlaps no other buffer attached
\* to the current node once that play() has completed.
C25_NoOverlap ==
  \A b \in order : \A a \in scheduled :
    ( ~b.stale /\ session # NULL /\ session = sessionPromise
      /\ plays = << >> /\ b.conn = session
      /\ a # [start |-> b.start, dur |-> b.dur] )
    => (a.start + a.dur <= b.start \/ b.start + b.dur <= a.start)

\* C26: the remote play signal is sent, and the output gain ramped up, only
\* while the playback state is loading: a play() forced to paused (no active
\* prompt) or interrupted by pause() or stop() during one of its awaits does
\* neither.
C26_PlayOnlyWhileLoading ==
  [][ (DidIn(trace', "remote", "play") \/ DidIn(trace', "gain", "up"))
        => (playbackState = "loading" /\ playbackState' = "loading") ]_vars

\* C27: events of a discarded session do not affect a later one: once play()
\* has established the session of the latest connect and no play() is left
\* suspended, the close of another (earlier, dropped) connection leaves the session handle, the playback
\* state, the cursor and the scheduled buffers as they were.
C27_DiscardedSessionInert ==
  [][ \A c \in ConnIds :
        ( /\ DidIn(trace', "handler", "onclose")
          /\ conns[c] = "open" /\ conns'[c] = "closed"
          /\ session # NULL /\ session = sessionPromise /\ c # session
          /\ plays = << >> )
        => /\ session' = session
           /\ playbackState' = playbackState
           /\ nextStartTime' = nextStartTime
           /\ scheduled' = scheduled ]_vars

\* The MIDI dispatcher once getMidiAccess has installed the handlers and made
\* the first input the active one: a device has sent one message; the UI may
\* select another input before or after the message is delivered.
engineVars ==
  << playbackState, session, sessionPromise, nextStartTime, prompts,
     filteredPrompts, scheduled, timers, clock, conns, plays, decodes, thr,
     pushes, bend, bendPushes, trace, prevBuf, connects, chunks, lastPush,
     calls, bendCalls, carried, staleTimers, decSeq, order >>

InitMidi ==
  /\ playbackState = "stopped"
  /\ session = NULL
  /\ sessionPromise = NULL
  /\ nextStartTime = 0
  /\ prompts = {}
  /\ filteredPrompts = {}
  /\ scheduled = {}
  /\ timers = 0
  /\ clock = 0
  /\ conns = [c \in ConnIds |-> "none"]
  /\ plays = << >>
  /\ decodes = << >>
  /\ thr = [cool |-> FALSE, pending |-> NoArgs]
  /\ pushes = 0
  /\ trace = << >>
  /\ prevBuf = NoBuf
  /\ connects = 0
  /\ chunks = 0
  /\ bend = [cool |-> FALSE, pending |-> NoBend]
  /\ bendPushes = 0
  /\ lastPush = {}
  /\ calls = NoCalls
  /\ bendCalls = NoBendCalls
  /\ carried = {}
  /\ staleTimers = 0
  /\ decSeq = << >>
  /\ order = {}
  /\ activeMidiInputId = 1
  /\ midiQueue \in {<<m>> : m \in MidiMessages}
  /\ midiIn = NoMessage
  /\ midiOut = << >>

\* handleMidiInputChange of the UI: another input becomes the active one.
SelectMidiInput(id) ==
  /\ id # activeMidiInputId
  /\ activeMidiInputId' = id
  /\ UNCHANGED << engineVars, midiQueue, midiIn, midiOut >>

\* input.onmidimessage for the message at the head of the queue.
OnMidiMessage ==
  /\ midiQueue # << >>
  /\ midiIn' = Head(midiQueue)
  /\ midiQueue' = Tail(midiQueue)
  /\ midiOut' = Dispatched(activeMidiInputId, Head(midiQueue))
  /\ UNCHANGED << engineVars, activeMidiInputId >>

NextMidi ==
  \/ \E id \in MidiInputs : SelectMidiInput(id)
  \/ OnMidiMessage

SpecMidi == InitMidi /\ [][NextMidi]_vars

\* C28: a pitch-bend message (status high nibble 0xE) from the active input
\* with 7-bit data bytes lsb and msb dispatches exactly one
\* pitch-bend-message whose value is ((msb * 128 + lsb) - 8192) / 8192, with
\* the numerator in [-8192, 8191], the value in [-1, 1] and the centre 8192
\* mapped to 0; a message from an input that is not the active one dispatches
\* nothing.
C28_PitchBend ==
  [][ (midiQueue # << >> /\ midiQueue' = << >>) =>
        LET m == Head(midiQueue)
            d == m.data
        IN  /\ ( m.input = activeMidiInputId /\ Len(d) = 3
                 /\ d[1] \div 16 = 14 /\ d[2] \in Bytes /\ d[3] \in Bytes )
               => /\ Len(midiOut') = 1
                  /\ midiOut'[1].type = "pitch-bend-message"
                  /\ midiOut'[1].detail.num = (d[3] * 128 + d[2]) - 8192
                  /\ midiOut'[1].detail.den = 8192
                  /\ midiOut'[1].detail.num \in -8192..8191
                  /\ -midiOut'[1].detail.den <= midiOut'[1].detail.num
                  /\ midiOut'[1].detail.num <= midiOut'[1].detail.den
                  /\ (d[3] * 128 + d[2] = 8192 => midiOut'[1].detail.num = 0)
            /\ m.input # activeMidiInputId => midiOut' = << >> ]_vars

\* The active input has just delivered the pitch-bend message with lsb 127
\* and msb 0.
C28_Witness ==
  /\ midiIn = [input |-> activeMidiInputId, data |-> <<224, 127, 0>>]
  /\ midiOut = << [type |-> "pitch-bend-message",
                   detail |-> [num |-> 127 - 8192, den |-> 8192]] >>
====
